---- MODULE Spec2Model ----
(***************************************************************************)
(* Model of ccrev/charts/chart_base.py: the IChart control chart (center   *)
(* line, sigma bands, signals) and the Plot wrapper it renders through.    *)
(*                                                                         *)
(* An IChart instance is the record `chart` of its attributes.  A Python   *)
(* value is a tagged record: None, PyInt(n), PyList(<<n1, ..>>) for a list *)
(* of numbers, PyStr(s); an attribute the instance does not have is Unset  *)
(* (reading it raises AttributeError).  An operation returns [exc, obj]:   *)
(* the exception it raised ("none" when it returned) and the instance, or  *)
(* the value, it produced.                                                 *)
(*                                                                         *)
(* IChart.__init__ raises before it attaches the series, the standard      *)
(* deviation and the plot factory (see IChartInitBody), so these reach an  *)
(* instance by attribute assignment only.  Spec covers construction and    *)
(* the assignments of series, center and standard deviation; SpecSignals   *)
(* the signals setter; SpecRender the plot getter and save_plot_as_jpeg    *)
(* on an instance whose attributes have been assigned.                     *)
(*                                                                         *)
(* Numbers are integers.  The standard deviations of the model are even,   *)
(* so that 3.5 * sigma is the integer (7 * sigma) \div 2.                  *)
(***************************************************************************)
EXTENDS Integers, Sequences, FiniteSets, TLC

VARIABLES
    chart,        \* the IChart instance: a record of its attributes
    raised,       \* the exception the last operation raised, or "none"
    initArgs,     \* the call IChart(...): its arguments and the exception it
                  \* raised; NotCalled before
    centerArg,    \* the value of the last center assignment that returned
    signalsArg,   \* the value of the last signals assignment
    signalsExc,   \* the exception the last signals assignment raised
    surface,      \* what the most recently created Plot has been asked to draw
    renders,      \* number of Plot objects created by reading IChart.plot
    writes,       \* number of print_jpeg calls
    files,        \* names of the image files written
    exported,     \* the paths save_plot_as_jpeg has returned for
    lastWrite,    \* the last print_jpeg: [path, file, drawing], or NoWrite
    returned      \* number of save_plot_as_jpeg calls that returned

vars == <<chart, raised, initArgs, centerArg, signalsArg, signalsExc,
          surface, renders, writes, files, exported, lastWrite, returned>>

configVars == <<chart, raised, initArgs, centerArg, signalsArg, signalsExc>>
renderVars == <<surface, renders, writes, files, exported, lastWrite, returned>>

----------------------------------------------------------------------------
(* Bounds and input domains *)

MaxN == 2          \* longest monitored series / center sequence
MaxSigLen == 3     \* longest collection assigned to signals
MaxRenders == 2    \* Plot objects created in one run

MonitoredVals == {10, 12}
CenterVals == {5, 6}
Sigmas == {-2, 0, 2}
Codes == {-1, 0, 2}
RuleNumbers == {1, 4}
Titles == {"I-chart"}
FilePaths == {<<"a">>, <<"a", ".", "j", "p", "e", "g">>, <<"b">>}

----------------------------------------------------------------------------
(* Python values *)

None == [kind |-> "None"]
Unset == [kind |-> "unset"]
NotCalled == [kind |-> "notcalled"]
NotAssigned == [kind |-> "notassigned"]
NoWrite == [kind |-> "nowrite"]
PyInt(n) == [kind |-> "int", val |-> n]
PyStr(s) == [kind |-> "str", val |-> s]
PyList(s) == [kind |-> "list", val |-> s]
PyDict(keys) == [kind |-> "dict", keys |-> keys]
SignalObj(n) == [kind |-> "Signal", rule_number |-> n]
Collection(items) == [kind |-> "collection", items |-> items]
PlotClass == [kind |-> "class", name |-> "Plot"]

SeqsUpTo(S, n) == UNION {[1..k -> S] : k \in 0..n}
Range(s) == {s[i] : i \in 1..Len(s)}

Series == {PyList(s) : s \in SeqsUpTo(MonitoredVals, MaxN)}
CenterSeqs == {PyList(s) : s \in SeqsUpTo(CenterVals, MaxN)}
CenterInputs == {PyInt(c) : c \in CenterVals} \cup CenterSeqs \cup {None}
SigmaInputs == {PyInt(s) : s \in Sigmas}
SignalEntries ==
    {PyInt(c) : c \in Codes} \cup {SignalObj(r) : r \in RuleNumbers} \cup {PyStr("bad")}
SignalInputs ==
    {Collection(s) : s \in SeqsUpTo(SignalEntries, MaxSigLen)} \cup {PyInt(7)}
StatsInputs == {None, PyDict({"standard_deviation"})}
TitleInputs == {None} \cup {PyStr(t) : t \in Titles}

Ok(o) == [exc |-> "none", obj |-> o]
Raise(e, o) == [exc |-> e, obj |-> o]

(* object.__new__(IChart): an instance with no attribute yet *)
NewInstance ==
    [title |-> Unset, monitored_values |-> Unset, standard_deviation |-> Unset,
     _signals |-> Unset, _center |-> Unset, _plot_factory |-> Unset]

----------------------------------------------------------------------------
(* IChart.center (setter) *)

CenterSetterShort(o, value) ==
    IF value.kind = "int"
    THEN IF o.monitored_values.kind = "unset" THEN Raise("AttributeError", o)
         ELSE IF o.monitored_values.kind # "list" THEN Raise("TypeError", o)
         ELSE Ok([o EXCEPT !._center =
                    PyList([i \in 1..(Len(o.monitored_values.val) - 1) |-> value.val])])
    ELSE IF value.kind = "list"
    THEN Ok([o EXCEPT !._center = value])
    ELSE Raise("ValueError", o)

CenterSetter(o, value) ==
    IF value.kind = "int"
    THEN IF o.monitored_values.kind = "unset" THEN Raise("AttributeError", o)
         ELSE IF o.monitored_values.kind # "list" THEN Raise("TypeError", o)
         ELSE Ok([o EXCEPT !._center =
                    PyList([i \in 1..Len(o.monitored_values.val) |-> value.val])])
    ELSE IF value.kind = "list"
    THEN Ok([o EXCEPT !._center = value])
    ELSE Raise("ValueError", o)

(* ControlChart.__init__; self.center = None goes through IChart's setter *)
ControlChartInit(o) ==
    LET o1 == [o EXCEPT !.title = None, !.monitored_values = None, !._signals = None]
        r == CenterSetter(o1, None)
    IN IF r.exc # "none" THEN r
       ELSE Ok([r.obj EXCEPT !._plot_factory = None])

(* IChart.__init__.  `data` on line 102 is not a name in scope, so the     *)
(* statements after it (standard_deviation, add_stats_data, _signals,      *)
(* _center, _plot_factory) are never executed.                             *)
IChartInitBody(o, monitored_data, stats_data, ttl) ==
    LET r == ControlChartInit(o)
    IN IF r.exc # "none" THEN r
       ELSE Raise("NameError", [r.obj EXCEPT !.title = ttl])

----------------------------------------------------------------------------
(* The six limits: list comprehensions over self.center *)

(* [val + k * self.standard_deviation for val in self.center]; an empty  *)
(* center never reads the standard deviation                              *)
PlusSigmas(o, k) ==
    IF o._center.kind = "unset" THEN Raise("AttributeError", <<>>)
    ELSE IF o._center.kind # "list" THEN Raise("TypeError", <<>>)
    ELSE IF o._center.val = <<>> THEN Ok(<<>>)
    ELSE IF o.standard_deviation.kind = "unset" THEN Raise("AttributeError", <<>>)
    ELSE IF o.standard_deviation.kind # "int" THEN Raise("TypeError", <<>>)
    ELSE Ok([i \in 1..Len(o._center.val) |->
                o._center.val[i] + k * o.standard_deviation.val])

(* [val - k * self.standard_deviation for val in self.center] *)
MinusSigmas(o, k) ==
    IF o._center.kind = "unset" THEN Raise("AttributeError", <<>>)
    ELSE IF o._center.kind # "list" THEN Raise("TypeError", <<>>)
    ELSE IF o._center.val = <<>> THEN Ok(<<>>)
    ELSE IF o.standard_deviation.kind = "unset" THEN Raise("AttributeError", <<>>)
    ELSE IF o.standard_deviation.kind # "int" THEN Raise("TypeError", <<>>)
    ELSE Ok([i \in 1..Len(o._center.val) |->
                o._center.val[i] - k * o.standard_deviation.val])

upper_action_limit(o) == PlusSigmas(o, 3)
lower_action_limit(o) == MinusSigmas(o, 3)
upper_warning_limit(o) == PlusSigmas(o, 2)
lower_warning_limit(o) == MinusSigmas(o, 2)
plus_one_standard_deviation(o) == PlusSigmas(o, 1)
minus_one_standard_deviation(o) == MinusSigmas(o, 1)

----------------------------------------------------------------------------
(* IChart.signals (setter) *)

(* the for loop: each item is appended as it is accepted *)
RECURSIVE AppendItems(_, _)
AppendItems(acc, items) ==
    IF items = <<>> THEN Ok(acc)
    ELSE LET item == Head(items)
         IN IF item.kind = "int"
            THEN AppendItems(Append(acc, item.val), Tail(items))
            ELSE IF item.kind = "Signal"
            THEN AppendItems(Append(acc, item.rule_number), Tail(items))
            ELSE Raise("ValueError", acc)

SignalsSetterKeeping(o, val) ==
    IF val.kind # "collection"
    THEN Raise("ValueError", [o EXCEPT !._signals = PyList(<<>>)])
    ELSE LET old == IF o._signals.kind = "list" THEN o._signals.val ELSE <<>>
             r == AppendItems(old, val.items)
         IN [exc |-> r.exc, obj |-> [o EXCEPT !._signals = PyList(r.obj)]]

(* `for item in val` on a value that is not iterable raises the TypeError  *)
(* the except clause catches; the ValueError of a rejected item is not     *)
(* caught, so self._signals keeps what the loop appended.                  *)
SignalsSetter(o, val) ==
    IF val.kind # "collection"
    THEN Raise("ValueError", [o EXCEPT !._signals = PyList(<<>>)])
    ELSE LET r == AppendItems(<<>>, val.items)
         IN [exc |-> r.exc, obj |-> [o EXCEPT !._signals = PyList(r.obj)]]

----------------------------------------------------------------------------
(* Plot: the instructions a Plot object passes on to its matplotlib axes   *)
(* and canvas.  The `surface` of a Plot is the sequence of these.          *)

Line2D(xdata, ydata, color, marker, linestyle) ==
    [op |-> "add_line", xdata |-> xdata, ydata |-> ydata, color |-> color,
     marker |-> marker, linestyle |-> linestyle]

(* Plot.add_line(data, color=..): x is 1..len(data) *)
add_line(data, color) ==
    IF data.kind = "unset" THEN Raise("AttributeError", <<>>)
    ELSE IF data.kind # "list" THEN Raise("TypeError", <<>>)
    ELSE Ok(<<Line2D([i \in 1..Len(data.val) |-> i], data.val, color, "", "-")>>)

(* Plot.resize_plot_axes *)
resize_plot_axes(x_min, x_max, y_min, y_max) ==
    <<[op |-> "set_xlim", min |-> x_min, max |-> x_max],
      [op |-> "set_ylim", min |-> y_min, max |-> y_max]>>

(* list.remove(e): the first element equal to e is removed *)
FirstIndex(s, e) == CHOOSE i \in 1..Len(s) : s[i] = e /\ \A j \in 1..(i - 1) : s[j] # e
Remove(s, e) ==
    LET k == FirstIndex(s, e)
    IN [i \in 1..(Len(s) - 1) |-> IF i < k THEN s[i] ELSE s[i + 1]]

(* the while loop of show_signals: it ends at the first remove that finds  *)
(* nothing to remove                                                       *)
RECURSIVE RemoveLoop(_, _)
RemoveLoop(x_data, y_data) ==
    IF 0 \notin Range(x_data) THEN [x |-> x_data, y |-> y_data]
    ELSE IF None \notin Range(y_data) THEN [x |-> Remove(x_data, 0), y |-> y_data]
    ELSE RemoveLoop(Remove(x_data, 0), Remove(y_data, None))

Min(a, b) == IF a <= b THEN a ELSE b

show_signalsInclusive(signals, monitored_values, refuses) ==
    IF signals.kind = "unset" THEN Raise("AttributeError", <<>>)
    ELSE IF signals.kind # "list" \/ monitored_values.kind # "list"
    THEN Raise("TypeError", <<>>)
    ELSE
      LET sig == signals.val
          mv == monitored_values.val
          x_data == [i \in 1..Len(sig) |-> IF sig[i] >= 0 THEN i ELSE 0]
          y_data == [j \in 1..Min(Len(mv), Len(x_data)) |->
                        IF x_data[j] > 0 THEN PyInt(mv[j]) ELSE None]
          r == RemoveLoop(x_data, y_data)
      IN IF Len(r.x) # Len(r.y) /\ refuses
         THEN Raise("ValueError", <<>>)
         ELSE Ok(<<Line2D(r.x, r.y, "r", "o", "None")>>)

(* Plot.show_signals(signals, monitored_values).  The entries of y_data    *)
(* are PyInt(value) or None.  matplotlib may refuse a Line2D whose xdata   *)
(* and ydata differ in length when the line is added to the axes           *)
(* (`refuses`).                                                            *)
show_signals(signals, monitored_values, refuses) ==
    IF signals.kind = "unset" THEN Raise("AttributeError", <<>>)
    ELSE IF signals.kind # "list" \/ monitored_values.kind # "list"
    THEN Raise("TypeError", <<>>)
    ELSE
      LET sig == signals.val
          mv == monitored_values.val
          x_data == [i \in 1..Len(sig) |-> IF sig[i] > 0 THEN i ELSE 0]
          y_data == [j \in 1..Min(Len(mv), Len(x_data)) |->
                        IF x_data[j] > 0 THEN PyInt(mv[j]) ELSE None]
          r == RemoveLoop(x_data, y_data)
      IN IF Len(r.x) # Len(r.y) /\ refuses
         THEN Raise("ValueError", <<>>)
         ELSE Ok(<<Line2D(r.x, r.y, "r", "o", "None")>>)

(* Plot.save_img: the name of the file print_jpeg is given *)
Jpeg == <<"j", "p", "e", "g">>
EndsWith(s, suffix) ==
    /\ Len(s) >= Len(suffix)
    /\ SubSeq(s, Len(s) - Len(suffix) + 1, Len(s)) = suffix
save_img(file_path) ==
    IF EndsWith(file_path, Jpeg) THEN file_path ELSE file_path \o <<".">> \o Jpeg

----------------------------------------------------------------------------
(* IChart.plot (property) and IChart.save_plot_as_jpeg *)

Limit(r, color) == IF r.exc # "none" THEN Raise(r.exc, <<>>) ELSE add_line(PyList(r.obj), color)

(* the arguments of resize_plot_axes, evaluated left to right *)
Resize(o) ==
    IF o.monitored_values.kind # "list" THEN Raise("TypeError", <<>>)
    ELSE IF o._center.kind = "unset" THEN Raise("AttributeError", <<>>)
    ELSE IF o._center.kind # "list" THEN Raise("TypeError", <<>>)
    ELSE IF o._center.val = <<>> THEN Raise("IndexError", <<>>)
    ELSE IF o.standard_deviation.kind = "unset" THEN Raise("AttributeError", <<>>)
    ELSE IF o.standard_deviation.kind # "int" THEN Raise("TypeError", <<>>)
    ELSE Ok(resize_plot_axes(
                0,
                Len(o.monitored_values.val),
                o._center.val[1] - (7 * o.standard_deviation.val) \div 2,
                o._center.val[1] + (7 * o.standard_deviation.val) \div 2))

PlotStepsWarningFirst(o, refuses) ==
    <<add_line(o.monitored_values, "b"),
      add_line(o._center, "k"),
      Limit(upper_warning_limit(o), "#FF8C00"),
      Limit(lower_warning_limit(o), "#FF8C00"),
      Limit(upper_action_limit(o), "r"),
      Limit(lower_action_limit(o), "r"),
      Limit(plus_one_standard_deviation(o), "g"),
      Limit(minus_one_standard_deviation(o), "g"),
      show_signals(o._signals, o.monitored_values, refuses),
      Resize(o)>>

(* the statements of the plot getter after the Plot is created, in order *)
PlotSteps(o, refuses) ==
    <<add_line(o.monitored_values, "b"),
      add_line(o._center, "k"),
      Limit(upper_action_limit(o), "r"),
      Limit(lower_action_limit(o), "r"),
      Limit(upper_warning_limit(o), "#FF8C00"),
      Limit(lower_warning_limit(o), "#FF8C00"),
      Limit(plus_one_standard_deviation(o), "g"),
      Limit(minus_one_standard_deviation(o), "g"),
      show_signals(o._signals, o.monitored_values, refuses),
      Resize(o)>>

(* the statements run until one raises; what was submitted stays submitted *)
RECURSIVE Submit(_, _)
Submit(acc, steps) ==
    IF steps = <<>> THEN Ok(acc)
    ELSE IF Head(steps).exc # "none" THEN Raise(Head(steps).exc, acc)
    ELSE Submit(acc \o Head(steps).obj, Tail(steps))

plot(o, refuses) ==
    IF o._plot_factory.kind = "unset"
    THEN [exc |-> "AttributeError", obj |-> <<>>, created |-> FALSE]
    ELSE IF o._plot_factory.kind # "class"
    THEN [exc |-> "TypeError", obj |-> <<>>, created |-> FALSE]
    ELSE LET r == Submit(<<>>, PlotSteps(o, refuses))
         IN [exc |-> r.exc, obj |-> r.obj, created |-> TRUE]

----------------------------------------------------------------------------
(* Operations on the instance: construction and configuration *)

Constructed == initArgs # NotCalled

(* chart = IChart(monitored_data, stats_data=.., title=..) *)
IChartInit ==
    /\ initArgs = NotCalled
    /\ \E monitored_data \in Series, stats_data \in StatsInputs, ttl \in TitleInputs :
          LET r == IChartInitBody(chart, monitored_data, stats_data, ttl)
          IN /\ chart' = r.obj
             /\ raised' = r.exc
             /\ initArgs' = [kind |-> "called", monitored_data |-> monitored_data,
                             stats_data |-> stats_data, title |-> ttl,
                             exc |-> r.exc]
    /\ UNCHANGED <<centerArg, signalsArg, signalsExc>>
    /\ UNCHANGED renderVars

(* chart.monitored_values = series: the series of a chart is attached     *)
(* once and not replaced                                                   *)
AttachMonitoredValues ==
    /\ Constructed
    /\ chart.monitored_values.kind # "list"
    /\ \E series \in Series :
          chart' = [chart EXCEPT !.monitored_values = series]
    /\ raised' = "none"
    /\ UNCHANGED <<initArgs, centerArg, signalsArg, signalsExc>>
    /\ UNCHANGED renderVars

(* chart.standard_deviation = s: a plain attribute, any value is stored *)
SetStandardDeviation ==
    /\ Constructed
    /\ \E s \in SigmaInputs :
          chart' = [chart EXCEPT !.standard_deviation = s]
    /\ raised' = "none"
    /\ UNCHANGED <<initArgs, centerArg, signalsArg, signalsExc>>
    /\ UNCHANGED renderVars

(* chart.center = value *)
SetCenter ==
    /\ Constructed
    /\ \E value \in CenterInputs :
          LET r == CenterSetter(chart, value)
          IN /\ chart' = r.obj
             /\ raised' = r.exc
             /\ centerArg' = IF r.exc = "none" THEN value ELSE centerArg
    /\ UNCHANGED <<initArgs, signalsArg, signalsExc>>
    /\ UNCHANGED renderVars

(* chart.signals = val *)
SetSignals ==
    /\ Constructed
    /\ \E val \in SignalInputs :
          LET r == SignalsSetter(chart, val)
          IN /\ chart' = r.obj
             /\ raised' = r.exc
             /\ signalsArg' = val
             /\ signalsExc' = r.exc
    /\ UNCHANGED <<initArgs, centerArg>>
    /\ UNCHANGED renderVars

NoRender ==
    /\ surface = <<>>
    /\ renders = 0
    /\ writes = 0
    /\ files = {}
    /\ exported = {}
    /\ lastWrite = NoWrite
    /\ returned = 0

Init ==
    /\ chart = NewInstance
    /\ raised = "none"
    /\ initArgs = NotCalled
    /\ centerArg = NotAssigned
    /\ signalsArg = NotAssigned
    /\ signalsExc = "none"
    /\ NoRender

Next ==
    \/ IChartInit
    \/ AttachMonitoredValues
    \/ SetStandardDeviation
    \/ SetCenter

Spec == Init /\ [][Next]_vars

(* The chart as IChart(series) leaves it, before any signals are assigned *)
AfterInit(monitored_data, stats_data, ttl) ==
    LET r == IChartInitBody(NewInstance, monitored_data, stats_data, ttl)
    IN /\ chart = r.obj
       /\ raised = r.exc
       /\ initArgs = [kind |-> "called", monitored_data |-> monitored_data,
                      stats_data |-> stats_data, title |-> ttl, exc |-> r.exc]

InitSignals ==
    /\ AfterInit(PyList(<<10, 12>>), None, None)
    /\ centerArg = NotAssigned
    /\ signalsArg = NotAssigned
    /\ signalsExc = "none"
    /\ NoRender

NextSignals == SetSignals

SpecSignals == InitSignals /\ [][NextSignals]_vars

----------------------------------------------------------------------------
(* Rendering and export of a configured chart *)

(* chart.plot: every read builds and draws a new Plot *)
ReadPlot ==
    /\ renders < MaxRenders
    /\ \E refuses \in BOOLEAN :
          LET r == plot(chart, refuses)
          IN /\ raised' = r.exc
             /\ surface' = IF r.created THEN r.obj ELSE surface
             /\ renders' = IF r.created THEN renders + 1 ELSE renders
    /\ UNCHANGED <<chart, initArgs, centerArg, signalsArg, signalsExc>>
    /\ UNCHANGED <<writes, files, exported, lastWrite, returned>>

SavePlotAsJpegOnce ==
    /\ renders < MaxRenders
    /\ \E file_path \in FilePaths, refuses \in BOOLEAN :
          LET r == plot(chart, refuses)
          IN IF file_path \in exported
             THEN /\ returned' = returned + 1
                  /\ raised' = "none"
                  /\ UNCHANGED <<surface, renders, writes, files, exported, lastWrite>>
             ELSE /\ raised' = r.exc
                  /\ surface' = IF r.created THEN r.obj ELSE surface
                  /\ renders' = IF r.created THEN renders + 1 ELSE renders
                  /\ IF r.exc = "none"
                     THEN /\ returned' = returned + 1
                          /\ writes' = writes + 1
                          /\ files' = files \cup {save_img(file_path)}
                          /\ exported' = exported \cup {file_path}
                          /\ lastWrite' = [kind |-> "write", path |-> file_path,
                                           file |-> save_img(file_path),
                                           drawing |-> r.obj]
                     ELSE UNCHANGED <<writes, files, exported, lastWrite, returned>>
    /\ UNCHANGED <<chart, initArgs, centerArg, signalsArg, signalsExc>>

(* chart.save_plot_as_jpeg(file_path): self.plot.save_img(file_path) *)
SavePlotAsJpeg ==
    /\ renders < MaxRenders
    /\ \E file_path \in FilePaths, refuses \in BOOLEAN :
          LET r == plot(chart, refuses)
          IN /\ raised' = r.exc
             /\ surface' = IF r.created THEN r.obj ELSE surface
             /\ renders' = IF r.created THEN renders + 1 ELSE renders
             /\ IF r.exc = "none"
                THEN /\ returned' = returned + 1
                     /\ writes' = writes + 1
                     /\ files' = files \cup {save_img(file_path)}
                     /\ exported' = exported \cup {file_path}
                     /\ lastWrite' = [kind |-> "write", path |-> file_path,
                                      file |-> save_img(file_path), drawing |-> r.obj]
                ELSE UNCHANGED <<writes, files, exported, lastWrite, returned>>
    /\ UNCHANGED <<chart, initArgs, centerArg, signalsArg, signalsExc>>

(* The configurations rendering starts from.  The series is a prefix of   *)
(* 10, 12, 14, ..; the center is the scalar 5 broadcast to some length or  *)
(* a prefix of the trend 5, 6, 7, ..; sigma is 0 or 2; the signals are any *)
(* sequence of codes.                                                      *)
RenderSeries == {PyList([i \in 1..n |-> 8 + 2 * i]) : n \in 0..MaxN}
RenderCenters ==
    {PyList([i \in 1..n |-> 5]) : n \in 0..MaxN}
        \cup {PyList([i \in 1..n |-> 4 + i]) : n \in 0..MaxN}
RenderSigmas == {PyInt(0), PyInt(2)}
StoredSignals == {PyList(s) : s \in SeqsUpTo(Codes, MaxN)}

(* A chart as construction and the attribute assignments leave it: each    *)
(* attribute either assigned or still as the constructor left it, and the  *)
(* plot factory of line 109 or none.                                       *)
ConfiguredCharts ==
    [title : {None},
     monitored_values : RenderSeries \cup {None},
     standard_deviation : RenderSigmas \cup {Unset},
     _signals : StoredSignals \cup {None},
     _center : RenderCenters \cup {Unset},
     _plot_factory : {PlotClass, Unset}]

InitRender ==
    /\ chart \in ConfiguredCharts
    /\ raised = "none"
    /\ initArgs = [kind |-> "called", monitored_data |-> PyList(<<10, 12>>),
                   stats_data |-> None, title |-> None, exc |-> "ValueError"]
    /\ centerArg = NotAssigned
    /\ signalsArg = NotAssigned
    /\ signalsExc = "none"
    /\ NoRender

NextRender ==
    \/ ReadPlot
    \/ SavePlotAsJpeg

SpecRender == InitRender /\ [][NextRender]_vars

----------------------------------------------------------------------------
(* Properties of the limits (Spec) *)

N == Len(chart.monitored_values.val)
sigma == chart.standard_deviation.val
CenterAt(i) == IF centerArg.kind = "int" THEN centerArg.val ELSE centerArg.val[i]

IsBand(limit, k) ==
    /\ limit.exc = "none"
    /\ Len(limit.obj) = N
    /\ \A i \in 1..N : limit.obj[i] = CenterAt(i) + k * sigma

Configured ==
    /\ chart.monitored_values.kind = "list"
    /\ N >= 1
    /\ centerArg.kind \in {"int", "list"}
    /\ centerArg.kind = "list" => Len(centerArg.val) = N
    /\ chart.standard_deviation.kind = "int"
    /\ sigma >= 0

(* C1: once a scalar center (broadcast) or a center sequence of length N and *)
(* a sigma >= 0 are set on a chart of N >= 1 values, each named limit has    *)
(* length N and element i equal to center[i] + k * sigma, k = +3, -3, +2,    *)
(* -2, +1, -1, whatever assignments came before.                             *)
C1_LimitsAreBands ==
    Configured =>
        /\ IsBand(upper_action_limit(chart), 3)
        /\ IsBand(lower_action_limit(chart), -3)
        /\ IsBand(upper_warning_limit(chart), 2)
        /\ IsBand(lower_warning_limit(chart), -2)
        /\ IsBand(plus_one_standard_deviation(chart), 1)
        /\ IsBand(minus_one_standard_deviation(chart), -1)

C1_Witness ==
    /\ Configured
    /\ N = 2
    /\ centerArg = PyInt(5)
    /\ sigma = 2
    /\ upper_action_limit(chart).obj = <<11, 11>>
    /\ lower_warning_limit(chart).obj = <<1, 1>>

(* C2: assigning a center sequence whose length differs from the number N  *)
(* of monitored values raises at the assignment: no assignment on a chart  *)
(* with an attached series stores a center of another length.              *)
C2_CenterLengthChecked ==
    [][(/\ chart.monitored_values.kind = "list"
        /\ chart'._center # chart._center
        /\ chart'._center.kind = "list")
       => Len(chart'._center.val) = Len(chart.monitored_values.val)]_vars

(* C3: a negative standard deviation is rejected at the assignment: no     *)
(* state holds a negative standard deviation.                              *)
C3_SigmaNeverNegative ==
    chart.standard_deviation.kind = "int" => chart.standard_deviation.val >= 0

(* C10: constructing an IChart on a series of N >= 1 values returns        *)
(* without error, with monitored_values the series passed in and nothing   *)
(* drawn.                                                                  *)
C10_ConstructionSucceeds ==
    [][(/\ ~Constructed
        /\ Constructed'
        /\ Len(initArgs'.monitored_data.val) >= 1)
       => /\ initArgs'.exc = "none"
          /\ chart'.monitored_values = initArgs'.monitored_data
          /\ renders' = 0]_vars

----------------------------------------------------------------------------
(* Properties of the signals setter (SpecSignals) *)

AllValid(items) == \A i \in 1..Len(items) : items[i].kind \in {"int", "Signal"}

(* C4: normalisation is all-or-nothing: after a signals assignment that    *)
(* raised, the chart retains none of the entries of the rejected           *)
(* collection.                                                             *)
C4_NoPartialSignals ==
    signalsExc # "none" => chart._signals = PyList(<<>>)

(* C5: a collection of integers and rule objects is normalised to a        *)
(* sequence of the same length and order, integers kept as they are (zero  *)
(* and negative included), rule objects replaced by their rule number; an  *)
(* assignment replaces the result of the one before.                       *)
C5_SignalsNormalised ==
    (signalsArg.kind = "collection" /\ AllValid(signalsArg.items)) =>
        /\ signalsExc = "none"
        /\ chart._signals.kind = "list"
        /\ Len(chart._signals.val) = Len(signalsArg.items)
        /\ \A i \in 1..Len(signalsArg.items) :
              LET item == signalsArg.items[i]
              IN chart._signals.val[i] =
                    IF item.kind = "int" THEN item.val ELSE item.rule_number

C5_Witness ==
    /\ signalsArg = Collection(<<PyInt(-1), SignalObj(4)>>)
    /\ chart._signals = PyList(<<-1, 4>>)
    /\ signalsExc = "none"


----------------------------------------------------------------------------
(* Properties of rendering and export (SpecRender) *)

Positive(sig) == SelectSeq([i \in 1..Len(sig) |-> i], LAMBDA i : sig[i] > 0)

MarkersDrawn ==
    /\ Len(surface) >= 9
    /\ chart._signals.kind = "list"
    /\ chart.monitored_values.kind = "list"

(* C6: for a series and signals of the same length, the markers drawn are  *)
(* exactly the points (i, monitored[i]), i counted from 1, whose signal    *)
(* code is > 0, in order; codes 0 and below give no marker; the x and y    *)
(* marker sequences have the same length.                                  *)
C6_MarkersAreSignalledPoints ==
    (MarkersDrawn /\ Len(chart._signals.val) = N) =>
        LET idx == Positive(chart._signals.val)
            markers == surface[9]
        IN /\ markers.xdata = idx
           /\ markers.ydata =
                 [j \in 1..Len(idx) |-> PyInt(chart.monitored_values.val[idx[j]])]
           /\ Len(markers.xdata) = Len(markers.ydata)

C6_Witness ==
    /\ MarkersDrawn
    /\ chart.monitored_values.val = <<10, 12>>
    /\ chart._signals.val = <<-1, 2>>
    /\ surface[9].xdata = <<2>>
    /\ surface[9].ydata = <<PyInt(12)>>

(* C7: a chart whose signals differ in length from its series is never     *)
(* rendered: no surface is fully drawn from such a chart.                  *)
C7_MismatchNeverRendered ==
    Len(surface) = 11 =>
        /\ chart._signals.kind = "list"
        /\ chart.monitored_values.kind = "list"
        /\ Len(chart._signals.val) = Len(chart.monitored_values.val)

(* C8 as stated: an export with a path already exported is a no-op (no     *)
(* further render, no further write); an export with a new path writes a   *)
(* file.                                                                   *)
C8_ReExportIsNoOp ==
    [][returned' = returned + 1 =>
          IF lastWrite'.path \in exported
          THEN writes' = writes /\ renders' = renders
          ELSE writes' = writes + 1 /\ lastWrite'.file \in files']_vars

(* C8 as amended: every export that returns has rendered the chart on a    *)
(* new surface and written it to the file its path names (the path when it *)
(* ends in "jpeg", else the path with ".jpeg" appended); an export with a  *)
(* path already exported repeats the render and the write and leaves the   *)
(* set of files as it was.                                                 *)
C8_ExportRepeats ==
    [][returned' = returned + 1 =>
          /\ renders' = renders + 1
          /\ writes' = writes + 1
          /\ lastWrite'.kind = "write"
          /\ lastWrite'.drawing = surface'
          /\ lastWrite'.file \in {lastWrite'.path, lastWrite'.path \o <<".", "j", "p", "e", "g">>}
          /\ files' = files \cup {lastWrite'.file}
          /\ lastWrite'.path \in exported => files' = files]_vars

C8_Witness ==
    /\ returned = 2
    /\ writes = 2
    /\ renders = 2
    /\ exported = {<<"a">>}
    /\ files = {<<"a", ".", "j", "p", "e", "g">>}

Band(c, k, sd) == [i \in 1..Len(c) |-> c[i] + k * sd]

IsRendering(d) ==
    /\ chart.monitored_values.kind = "list"
    /\ chart._center.kind = "list"
    /\ chart.standard_deviation.kind = "int"
    /\ LET mv == chart.monitored_values.val
           c == chart._center.val
           sd == chart.standard_deviation.val
       IN /\ Len(d) = 11
          /\ \A j \in 1..9 : d[j].op = "add_line"
          /\ \A j \in 1..8 : d[j].marker = "" /\ d[j].xdata = [i \in 1..Len(d[j].ydata) |-> i]
          /\ d[1].ydata = mv
          /\ d[2].ydata = c
          /\ d[3].ydata = Band(c, 3, sd)
          /\ d[4].ydata = Band(c, -3, sd)
          /\ d[5].ydata = Band(c, 2, sd)
          /\ d[6].ydata = Band(c, -2, sd)
          /\ d[7].ydata = Band(c, 1, sd)
          /\ d[8].ydata = Band(c, -1, sd)
          /\ d[9].marker = "o" /\ d[9].linestyle = "None"
          /\ d[10].op = "set_xlim" /\ d[10].min = 0 /\ d[10].max = Len(mv)
          /\ d[11].op = "set_ylim"
          /\ 2 * d[11].min = 2 * c[1] - 7 * sd
          /\ 2 * d[11].max = 2 * c[1] + 7 * sd

(* C9: every image is written from a surface that has received the eight   *)
(* lines in the order series, center, +3, -3, +2, -2, +1, -1 sigma, then    *)
(* the signal markers, then the range x in [0, N], y in center[0] -/+ 3.5   *)
(* sigma.                                                                   *)
C9_WritesAreRendered ==
    lastWrite.kind = "write" => IsRendering(lastWrite.drawing)

C9_Witness ==
    /\ lastWrite.kind = "write"
    /\ chart.monitored_values.val = <<10, 12>>
    /\ chart._center.val = <<5, 6>>
    /\ chart.standard_deviation.val = 2
    /\ lastWrite.drawing[3].ydata = <<11, 12>>
    /\ lastWrite.drawing[11] = [op |-> "set_ylim", min |-> -2, max |-> 12]

====
